---- MODULE Spec2Model ----
(***************************************************************************)
(* Loudness sampling and windowed aggregation, as implemented by the       *)
(* component variants of React-Native-DBgraph:                             *)
(*   "DbGraph"  src/components/DbGraph.jsx  (frame driven, AudioRecord)     *)
(*   "Part001"  src/unnamed/part_001        (interval driven, simulated)    *)
(*   "Part002"  src/unnamed/part_002        (interval driven, generated     *)
(*              levels, no average and no speech time)                     *)
(* One component instance is modelled; which variant it is, and the        *)
(* duration prop it was mounted with, are fixed in the initial state.      *)
(* Each handler is one action; a handler that awaits the recorder is two   *)
(* (the part before the await and the part after it). The permission       *)
(* prompt of startAudio is taken to resolve before anything else runs.     *)
(*                                                                         *)
(* Units: wall-clock time and sample times are whole seconds; the speech   *)
(* time accumulator is kept in hundredths of a second; the average is an   *)
(* exact fraction <<numerator, denominator>> in lowest terms.              *)
(***************************************************************************)
EXTENDS Integers, Sequences, FiniteSets, TLC

\* ------------------------------------------------------------------ bounds
\* Wall clock (seconds) when the component mounts; far above any duration.
Epoch0 == 100
\* Events of one run: calls of start, stop and clear, samples, clock moves.
MaxSteps == 6
\* Largest duration prop (seconds) a component is mounted with.
MaxDuration == 2
\* Backward steps of the wall clock in one run.
MaxClockBack == 1
\* Latest start of the four-sample scenario, in clock ticks after the mount.
MaxScenarioStart == 8
\* Sampling ticks of one run with paced sampling.
MaxPacedTicks == 3
\* Samples in one frame of the recorder.
MaxFrameLen == 2
\* Largest sound level (dB) handed to App.js.
MaxSoundLevel == 130
\* Events of one run of a session with speech.
MaxSpeechSteps == 24
\* Frames App.js gets in one run.
MaxAppFrames == 53

\* ------------------------------------------------------- program constants
\* DbGraph.jsx: silence floor of the average, speech threshold, speech
\* increment per frame (0.1 s), clamp of the display scale, fallback window.
SilenceFloor == 8
SpeechThreshold == 12
SpeechStep == 10
MaxDisplay == 100
FallbackWindow == 30
\* part_001: excluded band 1..10, speech threshold, increment (0.05 s),
\* dbOffset, the duration that arms the timeout, the currentDB throttle (ms).
BandLow == 1
BandHigh == 10
SpeechThreshold1 == 10
SpeechStep1 == 5
dbOffset == 50
TimeoutDuration == 5
ThrottleMs == 200
\* Both: minimum speech time (1 s) below which stop reports 0.
MinSpeech == 100
\* DbGraph.jsx: 20 * Math.log10(rms / 32767) + 90
Int16Max == 32767
DbShift == 90
\* 20 * log10(32767), to the whole number above
DbInt16Max == 91
\* App.js: (soundLevel / 80) * 100
SoundLevelFull == 80
\* App.js: if (newHistory.length > 50) newHistory.shift()
HistoryCap == 50

\* --------------------------------------------------------------- helpers
Max(a, b) == IF a >= b THEN a ELSE b
Min(a, b) == IF a <= b THEN a ELSE b

RECURSIVE Gcd(_, _)
Gcd(a, b) == IF b = 0 THEN a ELSE Gcd(b, a % b)

\* n / d as a fraction in lowest terms (d > 0, n >= 0).
Ratio(n, d) == LET g == Gcd(n, d) IN <<n \div g, d \div g>>

Zero == <<0, 1>>

RECURSIVE SumY(_)
SumY(s) == IF s = <<>> THEN 0 ELSE Head(s).y + SumY(Tail(s))

\* sum / length of a non-empty list of points
Mean(points) == Ratio(SumY(points), Len(points))

\* ---------------------------------------------------------------- inputs
Variants == {"DbGraph", "Part001", "Part002"}
Durations == 1..MaxDuration
\* 20*log10(rms/32767) + 90 for a frame, before clamping
FrameDbs == {-1, 9, 60}
\* 20*log10(rms) of the simulated amplitude, rms in [0.1, 0.8)
SimulatedDbs == {-20, -2}
\* generateDBValue(): baseNoise + speechBurst, in [0, 55)
GeneratedDbs == {5, 40}

VARIABLES
    variant,             \* which component this is
    duration,            \* the duration prop
    now,                 \* Date.now(), seconds
    micPermission,       \* the app holds the RECORD_AUDIO permission
    handle,              \* averageDB and running as the ref handle captured them
    app,                 \* App.js: its state, its listeners, the frames it got
    recorder,            \* native recorder: "off", "on", "stopping"
    waveformData,        \* useState: the Window, a list of [x, y]
    running,             \* useState
    time,                \* useState: elapsed seconds shown
    averageDB,           \* useState
    currentDB,           \* useState
    recordingDuration,   \* useState
    startTimeRef,        \* useRef
    timeoutRef,          \* useRef: <<>> or <<deadline>> of the pending timeout
    activeSpeechTimeRef, \* useRef, hundredths of a second
    lastCurrentUpdateRef,\* useRef (part_001)
    stopPc,              \* "idle", or who called the stopAudio that is awaiting
                         \* AudioRecord.stop(): "user" or "timeout"
    stopAvg,             \* averageDB as seen by the stopAudio in flight
    timerAvg,            \* averageDB as seen by the closure the timeout calls
    ivalAvg,             \* averageDB as seen by the closure the interval calls
    intervalRef,         \* useRef (part_002): TRUE when it names a live interval
    intervals,           \* part_002: the live intervals, oldest first, each the
                         \* isRecording seen by the stopRecording it calls; the
                         \* one intervalRef names is the last
    lastOp,              \* history: the handler that ran last and what it reported
    sessionWindow,       \* history: samples pushed since the last start or clear
                         \* that lie inside the bound of the newest one
    sessionRegular,      \* history: the session began with a successful start
                         \* from Idle or Stopped, and its sample times began
                         \* at 0 or later and never decreased
    sessionPrev,         \* history: <<>> or <<time of the session's last sample>>
    sessionStart,        \* history: wall clock at the last start
    steps,               \* history: events so far
    backs,               \* history: backward clock steps so far
    mounted              \* the component is mounted

vars == <<variant, duration, handle, app, now, micPermission, recorder, waveformData, running, time,
          averageDB, currentDB, recordingDuration, startTimeRef, timeoutRef,
          activeSpeechTimeRef, lastCurrentUpdateRef, stopPc, stopAvg, timerAvg,
          ivalAvg, intervalRef, intervals, lastOp, sessionWindow,
          sessionRegular, sessionPrev, sessionStart, steps, backs, mounted>>

\* What no handler of the graphs writes: the props, the ref handle of the
\* last render, and the state of the sound-level meter (App.js).
props == <<variant, duration, handle, app>>
ivals == <<intervalRef, intervals>>
part002 == <<variant, duration, handle, app, averageDB, recordingDuration, timeoutRef,
             activeSpeechTimeRef, lastCurrentUpdateRef, stopAvg, timerAvg,
             ivalAvg>>
closures == <<stopAvg, timerAvg, ivalAvg>>
session == <<sessionWindow, sessionRegular, sessionPrev, sessionStart>>

\* What a handler leaves in lastOp: its name, who called it (by, for a stop:
\* "user", "timeout" or "interval"), the value it returned (ret) and
\* the argument it gave onAverageUpdate (cb), each <<>> when there is none,
\* and for a sample the point pushed with the time of the sample before it.
Op(name) == [op |-> name, by |-> "", ret |-> <<>>, cb |-> <<>>, sample |-> <<>>]

\* An event of the environment (a call, a sample, a clock move) is counted.
Event == steps < MaxSteps /\ steps' = steps + 1

\* App.js right after it mounted: the useState values, no listener, and no
\* frame arrived yet.
AppMounted ==
    [isRecording |-> FALSE,
     hasPermission |-> FALSE,
     currentDecibels |-> 0,
     averageDecibels |-> 0,
     decibelHistory |-> <<>>,
     soundLevel |-> "off",
     listeners |-> 0,
     soundLevelListener |-> FALSE,
     arrived |-> <<>>,
     frames |-> 0]

\* The component right after it mounted, whatever its props.
MountedAt(counted) ==
    /\ now = Epoch0
    /\ handle = [averageDB |-> Zero, running |-> FALSE]
    /\ app = AppMounted
    /\ micPermission = FALSE
    /\ recorder = "off"
    /\ waveformData = <<>>
    /\ running = FALSE
    /\ time = 0
    /\ averageDB = Zero
    /\ currentDB = 0
    /\ recordingDuration = 0
    /\ startTimeRef = 0
    /\ timeoutRef = <<>>
    /\ activeSpeechTimeRef = 0
    /\ lastCurrentUpdateRef = 0
    /\ stopPc = "idle"
    /\ stopAvg = Zero
    /\ timerAvg = Zero
    /\ ivalAvg = Zero
    /\ intervalRef = FALSE
    /\ intervals = <<>>
    /\ lastOp = Op("mount")
    /\ sessionWindow = <<>>
    /\ sessionRegular = TRUE
    /\ sessionPrev = <<>>
    /\ sessionStart = 0
    /\ steps = counted
    /\ backs = 0
    /\ mounted = TRUE

Mounted == MountedAt(0)

Init ==
    /\ variant \in Variants
    /\ duration \in Durations \cup
           (IF variant = "Part001" THEN {TimeoutDuration} ELSE {})
    /\ Mounted

\* ------------------------------------------------------------ environment
\* The wall clock advances.
Tick ==
    /\ Event
    /\ now' = now + 1
    /\ lastOp' = Op("tick")
    /\ UNCHANGED <<props, micPermission, ivals, recorder, waveformData, running, time, averageDB,
                   currentDB, recordingDuration, startTimeRef, timeoutRef,
                   activeSpeechTimeRef, lastCurrentUpdateRef, stopPc,
                   closures, session, backs, mounted>>

\* The wall clock is set back (Date.now() is not monotonic).
ClockBack ==
    /\ Event
    /\ backs < MaxClockBack
    /\ now' = now - 1
    /\ backs' = backs + 1
    /\ lastOp' = Op("clockBack")
    /\ UNCHANGED <<props, micPermission, ivals, recorder, waveformData, running, time, averageDB,
                   currentDB, recordingDuration, startTimeRef, timeoutRef,
                   activeSpeechTimeRef, lastCurrentUpdateRef, stopPc,
                   closures, session, mounted>>

\* ----------------------------------------------------- history bookkeeping
\* The samples pushed since the last start (or clear) that lie inside the
\* trailing bound of the newest one, kept independently of the component's
\* own list.
SessionPushBy(p, by) ==
    /\ sessionWindow' = SelectSeq(Append(sessionWindow, p),
                                  LAMBDA q : q.x >= p.x - duration)
    /\ sessionRegular' = (sessionRegular /\ p.x >= 0
                       /\ (sessionPrev = <<>> \/ p.x >= sessionPrev[1]))
    /\ sessionPrev' = <<p.x>>
    /\ lastOp' = [Op("sample") EXCEPT
                     !.by = by,
                     !.sample = <<[x |-> p.x, y |-> p.y, prev |-> sessionPrev]>>]
    /\ UNCHANGED sessionStart

SessionPush(p) == SessionPushBy(p, "")

SessionStart(ok) ==
    /\ sessionWindow' = <<>>
    /\ sessionRegular' = (ok /\ ~running /\ stopPc = "idle")
    /\ sessionPrev' = <<>>
    /\ sessionStart' = now

\* ------------------------------------------------ DbGraph.jsx: data frames
\* Math.max(0, Math.min(100, db))
NormalizeDb(db) == Max(0, Min(MaxDisplay, db))

\* duration || 30
WindowSpan(d) == IF d # 0 THEN d ELSE FallbackWindow

\* updated.filter(p => p.x >= Math.max(0, currentTime - (duration || 30)))
SlidingWindow(updated, currentTime) ==
    LET windowStart == Max(0, currentTime - WindowSpan(duration))
    IN  SelectSeq(updated, LAMBDA p : p.x >= windowStart)

\* filteredForDisplay.filter(point => point.y >= 8)
ActivePoints(points) == SelectSeq(points, LAMBDA p : p.y >= SilenceFloor)

\* A variant that resets the average when no point is at or above the floor.
NextAverageReset(filtered, prev) ==
    IF Len(ActivePoints(filtered)) > 0 THEN Mean(ActivePoints(filtered)) ELSE Zero

\* A variant that averages over every point of the window.
NextAverageOfAll(filtered, prev) ==
    IF Len(ActivePoints(filtered)) > 0 THEN Mean(filtered) ELSE prev

\* setAverageDB(avg) only when some point is at or above the floor
NextAverage(filtered, prev) ==
    IF Len(ActivePoints(filtered)) > 0 THEN Mean(ActivePoints(filtered)) ELSE prev

\* A variant that counts every frame at or above the silence floor as speech.
NextSpeechTimeFloor(y, t) == IF y >= SilenceFloor THEN t + SpeechStep ELSE t

\* activeSpeechTimeRef.current += 0.1 when normalizedDB > 12
NextSpeechTime(y, t) == IF y > SpeechThreshold THEN t + SpeechStep ELSE t

\* AudioRecord.on('data', ...): runs for every frame the recorder delivers,
\* also for frames still in flight after AudioRecord.stop() was called.
OnData(db) ==
    /\ variant = "DbGraph"
    /\ recorder \in {"on", "stopping"}
    /\ Event
    /\ LET normalizedDB == NormalizeDb(db)
           currentTime == now - startTimeRef
           newPoint == [x |-> currentTime, y |-> normalizedDB]
           filteredForDisplay ==
               SlidingWindow(Append(waveformData, newPoint), currentTime)
       IN  /\ currentDB' = normalizedDB
           /\ averageDB' = NextAverage(filteredForDisplay, averageDB)
           /\ activeSpeechTimeRef' =
                  NextSpeechTime(normalizedDB, activeSpeechTimeRef)
           /\ waveformData' = filteredForDisplay
           /\ time' = currentTime
           /\ SessionPush(newPoint)
    /\ UNCHANGED <<props, micPermission, ivals, now, recorder, running, recordingDuration,
                   startTimeRef, timeoutRef, lastCurrentUpdateRef, stopPc,
                   closures, backs, mounted>>

\* ------------------------------------------------- DbGraph.jsx: startAudio
\* A refusal that goes on to start the recorder all the same.
StartDeniedCaptures ==
    /\ ~micPermission
    /\ Event
    /\ lastOp' = Op("startDenied")
    /\ recorder' = "on"
    /\ UNCHANGED <<props, micPermission, ivals, now, waveformData, running, time,
                   averageDB, currentDB, recordingDuration, startTimeRef,
                   timeoutRef, activeSpeechTimeRef, lastCurrentUpdateRef,
                   stopPc, closures, session, backs, mounted>>

\* startAudio / startRecording with the permission refused: Alert and return
\* (all variants). A permission once granted is not asked for again.
StartDenied ==
    /\ ~micPermission
    /\ Event
    /\ lastOp' = Op("startDenied")
    /\ UNCHANGED <<props, micPermission, ivals, now, recorder, waveformData, running, time,
                   averageDB, currentDB, recordingDuration, startTimeRef,
                   timeoutRef, activeSpeechTimeRef, lastCurrentUpdateRef,
                   stopPc, closures, session, backs, mounted>>

\* DbGraph.jsx arms the timeout if (duration && duration > 0)
ArmsTimeout(d) == d # 0 /\ d > 0

\* startAudio with permission granted. ok = FALSE is AudioRecord.start()
\* throwing, which runs the catch block.
DbGraphStart(ok) ==
    /\ variant = "DbGraph"
    /\ Event
    /\ micPermission' = TRUE
    /\ time' = 0
    /\ recordingDuration' = 0
    /\ activeSpeechTimeRef' = 0
    /\ waveformData' = <<>>
    /\ startTimeRef' = now
    /\ IF ok
       THEN /\ running' = TRUE
            /\ recorder' = "on"
            /\ IF ArmsTimeout(duration)
               THEN /\ timeoutRef' = <<now + duration>>
                    /\ timerAvg' = averageDB
               ELSE UNCHANGED <<timeoutRef, timerAvg>>
            /\ lastOp' = Op("start")
       ELSE /\ running' = FALSE
            /\ UNCHANGED <<recorder, timeoutRef, timerAvg>>
            /\ lastOp' = Op("startFailed")
    /\ SessionStart(ok)
    /\ UNCHANGED <<props, ivals, now, averageDB, currentDB, lastCurrentUpdateRef,
                   stopPc, stopAvg, ivalAvg, backs, mounted>>

\* -------------------------------------------------- DbGraph.jsx: stopAudio
\* stopAudio up to `await AudioRecord.stop()`; avg is the averageDB of the
\* render whose stopAudio is called.
DbGraphStopCall(avg, by) ==
    /\ stopPc = "idle"
    /\ running' = FALSE
    /\ timeoutRef' = <<>>
    /\ timerAvg' = Zero
    /\ recorder' = IF recorder = "on" THEN "stopping" ELSE recorder
    /\ stopPc' = by
    /\ stopAvg' = avg
    /\ lastOp' = [Op("stopCall") EXCEPT !.by = by]
    /\ UNCHANGED <<props, micPermission, ivals, now, waveformData, time, averageDB, currentDB,
                   recordingDuration, startTimeRef, activeSpeechTimeRef,
                   lastCurrentUpdateRef, ivalAvg, session, backs, mounted>>

\* A stopAudio without the override for short speech.
FinalAverageKept(avg, speech) == avg

\* let finalAverageDB = averageDB; if (activeSpeechTimeRef.current < 1) it is 0
FinalAverage(avg, speech) == IF speech < MinSpeech THEN Zero ELSE avg

\* ... and setAverageDB(0) in that case
StoredAverage(avg, speech) == IF speech < MinSpeech THEN Zero ELSE avg

\* The rest of stopAudio once AudioRecord.stop() resolved.
DbGraphStopDone ==
    /\ variant = "DbGraph"
    /\ stopPc # "idle"
    /\ stopPc' = "idle"
    /\ stopAvg' = Zero
    /\ recorder' = IF recorder = "stopping" THEN "off" ELSE recorder
    /\ recordingDuration' = now - startTimeRef
    /\ averageDB' = StoredAverage(averageDB, activeSpeechTimeRef)
    /\ lastOp' = [Op("stop") EXCEPT
                     !.by = stopPc,
                     !.ret = <<FinalAverage(stopAvg, activeSpeechTimeRef)>>,
                     !.cb = <<FinalAverage(stopAvg, activeSpeechTimeRef)>>]
    /\ UNCHANGED <<props, micPermission, ivals, now, waveformData, running, time, currentDB,
                   startTimeRef, timeoutRef, activeSpeechTimeRef,
                   lastCurrentUpdateRef, timerAvg, ivalAvg, session, steps,
                   backs, mounted>>

\* AudioRecord.stop() rejected: the catch block of stopAudio. What the
\* recorder does after a failed stop is not the component's to decide.
DbGraphStopFailed ==
    /\ variant = "DbGraph"
    /\ stopPc # "idle"
    /\ stopPc' = "idle"
    /\ stopAvg' = Zero
    /\ \E r \in {"off", "on"} :
           recorder' = IF recorder = "stopping" THEN r ELSE recorder
    /\ running' = FALSE
    /\ lastOp' = [Op("stopFailed") EXCEPT !.by = stopPc, !.ret = <<stopAvg>>]
    /\ UNCHANGED <<props, micPermission, ivals, now, waveformData, time, averageDB, currentDB,
                   recordingDuration, startTimeRef, timeoutRef,
                   activeSpeechTimeRef, lastCurrentUpdateRef, timerAvg,
                   ivalAvg, session, steps, backs, mounted>>

\* -------------------------------------------------------------- clearData
\* A variant of clearData that leaves the timeout of the session pending.
ClearDataKeepsTimer ==
    /\ Event
    /\ waveformData' = <<>>
    /\ time' = 0
    /\ recordingDuration' = 0
    /\ activeSpeechTimeRef' = 0
    /\ startTimeRef' = 0
    /\ averageDB' = Zero
    /\ currentDB' = 0
    /\ lastOp' = Op("clear")
    /\ sessionWindow' = <<>>
    /\ UNCHANGED <<props, micPermission, ivals, now, recorder, running,
                   timeoutRef, timerAvg, lastCurrentUpdateRef, stopPc, stopAvg,
                   ivalAvg, sessionRegular, sessionPrev, sessionStart, backs, mounted>>

\* A variant of clearData that forgets setAverageDB(0).
ClearDataKeepsAverage ==
    /\ Event
    /\ waveformData' = <<>>
    /\ time' = 0
    /\ recordingDuration' = 0
    /\ activeSpeechTimeRef' = 0
    /\ startTimeRef' = 0
    /\ currentDB' = 0
    /\ timeoutRef' = <<>>
    /\ timerAvg' = Zero
    /\ lastOp' = Op("clear")
    /\ sessionWindow' = <<>>
    /\ UNCHANGED <<props, micPermission, ivals, now, recorder, running, averageDB,
                   lastCurrentUpdateRef, stopPc, stopAvg, ivalAvg,
                   sessionRegular, sessionPrev, sessionStart, backs, mounted>>

\* The same in DbGraph.jsx and part_001; part_002's clearData resets the
\* fields of these that it has (the Window, the level, the elapsed time and
\* startTimeRef), the others stay at their initial values there.
ClearData ==
    /\ Event
    /\ waveformData' = <<>>
    /\ time' = 0
    /\ recordingDuration' = 0
    /\ activeSpeechTimeRef' = 0
    /\ startTimeRef' = 0
    /\ averageDB' = Zero
    /\ currentDB' = 0
    /\ timeoutRef' = <<>>
    /\ timerAvg' = Zero
    /\ lastOp' = Op("clear")
    /\ sessionWindow' = <<>>
    /\ UNCHANGED <<props, micPermission, ivals, now, recorder, running, lastCurrentUpdateRef,
                   stopPc, stopAvg, ivalAvg, sessionRegular, sessionPrev,
                   sessionStart, backs, mounted>>

\* ------------------------------------------------------------- part_001
\* Math.max(0, dB + 100 - dbOffset)
ProcessAudioData(dB) == Max(0, dB + 100 - dbOffset)

\* [...prev, newPoint].filter(p => p.x >= currentElapsedTime - duration)
SlidingWindow1(updated, currentElapsedTime) ==
    SelectSeq(updated, LAMBDA p : p.x >= currentElapsedTime - duration)

\* updated.filter(point => point.y < 1 || point.y > 10)
ValidPoints(points) ==
    SelectSeq(points, LAMBDA p : p.y < BandLow \/ p.y > BandHigh)

\* validPoints.length > 0 ? sum / validPoints.length : 0
NextAverage1(updated) ==
    IF Len(ValidPoints(updated)) > 0 THEN Mean(ValidPoints(updated)) ELSE Zero

\* activeSpeechTimeRef.current += 0.05 when normalizedDB > 10
NextSpeechTime1(y, t) == IF y > SpeechThreshold1 THEN t + SpeechStep1 ELSE t

\* !lastCurrentUpdateRef.current || now - lastCurrentUpdateRef.current > 200
ThrottleOpen == lastCurrentUpdateRef = 0
                \/ (now - lastCurrentUpdateRef) * 1000 > ThrottleMs

\* startAudio with permission granted. ok = FALSE is AudioRecord.start()
\* throwing: the catch block returns false and leaves running as set. The
\* interval effect runs when running turns true and keeps the averageDB of
\* that render.
Part001Start(ok) ==
    /\ variant = "Part001"
    /\ Event
    /\ micPermission' = TRUE
    /\ time' = 0
    /\ recordingDuration' = 0
    /\ activeSpeechTimeRef' = 0
    /\ startTimeRef' = now
    /\ running' = TRUE
    /\ ivalAvg' = IF running THEN ivalAvg ELSE averageDB
    /\ IF ok
       THEN /\ recorder' = "on"
            /\ IF duration = TimeoutDuration
               THEN /\ timeoutRef' = <<now + TimeoutDuration>>
                    /\ timerAvg' = averageDB
               ELSE UNCHANGED <<timeoutRef, timerAvg>>
            /\ lastOp' = Op("start")
       ELSE /\ UNCHANGED <<recorder, timeoutRef, timerAvg>>
            /\ lastOp' = Op("startFailed")
    /\ SessionStart(ok)
    /\ UNCHANGED <<props, ivals, now, waveformData, averageDB, currentDB,
                   lastCurrentUpdateRef, stopPc, stopAvg, backs, mounted>>

\* stopAudio (synchronous); avg is the averageDB of the render whose
\* stopAudio is called.
Part001Stop(avg, by) ==
    /\ running' = FALSE
    /\ ivalAvg' = Zero
    /\ timeoutRef' = <<>>
    /\ timerAvg' = Zero
    /\ recorder' = "off"
    /\ recordingDuration' = now - startTimeRef
    /\ averageDB' = StoredAverage(averageDB, activeSpeechTimeRef)
    /\ lastOp' = [Op("stop") EXCEPT
                     !.by = by,
                     !.ret = <<FinalAverage(avg, activeSpeechTimeRef)>>,
                     !.cb = <<FinalAverage(avg, activeSpeechTimeRef)>>]
    /\ UNCHANGED <<props, micPermission, ivals, now, waveformData, time, currentDB, startTimeRef,
                   activeSpeechTimeRef, lastCurrentUpdateRef, stopPc, stopAvg,
                   session, backs, mounted>>

\* The setInterval callback, alive while running: it stops the session once
\* the elapsed time reaches the duration, and samples otherwise.
IntervalCallback(dB) ==
    /\ variant = "Part001"
    /\ running
    /\ Event
    /\ LET currentElapsedTime == now - startTimeRef
           normalizedDB == ProcessAudioData(dB)
           newPoint == [x |-> currentElapsedTime, y |-> normalizedDB]
           updated ==
               SlidingWindow1(Append(waveformData, newPoint), currentElapsedTime)
       IN  IF duration # 0 /\ currentElapsedTime >= duration
           THEN Part001Stop(ivalAvg, "interval")
           ELSE /\ IF ThrottleOpen
                   THEN /\ currentDB' = normalizedDB
                        /\ lastCurrentUpdateRef' = now
                   ELSE UNCHANGED <<currentDB, lastCurrentUpdateRef>>
                /\ time' = currentElapsedTime
                /\ waveformData' = updated
                /\ averageDB' = NextAverage1(updated)
                /\ activeSpeechTimeRef' =
                       NextSpeechTime1(normalizedDB, activeSpeechTimeRef)
                /\ SessionPush(newPoint)
                /\ UNCHANGED <<props, micPermission, ivals, now, recorder, running,
                               recordingDuration, startTimeRef, timeoutRef,
                               stopPc, closures, backs, mounted>>

\* ------------------------------------------------------------- part_002
\* updated.filter(point => point.x >= Math.max(0, currentTime - timeWindow))
SlidingWindow2(updated, currentTime) ==
    SelectSeq(updated, LAMBDA p : p.x >= Max(0, currentTime - duration))

\* The intervals left when the one intervalRef names is cleared.
DropNamed == IF intervalRef THEN SubSeq(intervals, 1, Len(intervals) - 1)
                            ELSE intervals

\* The cleanup of the [isRecording] effect runs whenever isRecording changes,
\* with the isRecording of the render before: it clears the interval that
\* intervalRef names when it runs, and calls stopRecorder() if isRecording
\* was true.
\*
\* startRecording, mounted and with permission. ok = FALSE is startRecorder
\* rejecting twice: the catch block. The interval it sets calls the
\* stopRecording of the render startRecording came from, and intervalRef is
\* overwritten without clearing the interval it named. When isRecording turns
\* true the effect cleanup runs either after startRecording has set its
\* interval (late: it clears that interval) or before (it clears the one
\* intervalRef named until then), as React schedules it.
Part002Start(ok) ==
    /\ variant = "Part002"
    /\ Event
    /\ micPermission' = TRUE
    /\ waveformData' = <<>>
    /\ currentDB' = 0
    /\ time' = 0
    /\ startTimeRef' = now
    /\ IF ok
       THEN /\ recorder' = "on"
            /\ running' = TRUE
            /\ IF running
               THEN /\ intervalRef' = TRUE
                    /\ intervals' = Append(intervals, running)
               ELSE \E late \in BOOLEAN :
                      IF late
                      THEN /\ intervalRef' = FALSE
                           /\ intervals' = intervals
                      ELSE /\ intervalRef' = TRUE
                           /\ intervals' = Append(DropNamed, running)
            /\ lastOp' = Op("start")
       ELSE /\ running' = FALSE
            /\ IF running
               THEN /\ intervalRef' = FALSE
                    /\ intervals' = DropNamed
                    /\ recorder' = "off"
               ELSE UNCHANGED <<recorder, ivals>>
            /\ lastOp' = Op("startFailed")
    /\ SessionStart(ok)
    /\ UNCHANGED <<part002, now, stopPc, backs, mounted>>

\* stopRecording as it would be without the effect cleanup: a call that sees
\* isRecording false leaves the recorder as it is.
Part002StopNoCleanup(isRecording, by) ==
    /\ intervalRef' = FALSE
    /\ intervals' = DropNamed
    /\ IF isRecording
       THEN /\ stopPc' = IF stopPc = "idle" THEN by ELSE stopPc
            /\ recorder' = IF recorder = "on" THEN "stopping" ELSE recorder
            /\ UNCHANGED running
       ELSE /\ running' = FALSE
            /\ UNCHANGED <<recorder, stopPc>>

\* stopRecording up to `await audioRecorderPlayer.stopRecorder()`, which it
\* reaches only if the isRecording it sees is true; otherwise all of it,
\* and then the effect cleanup stops the recorder if isRecording was true.
Part002Stop(isRecording, by) ==
    /\ intervalRef' = FALSE
    /\ intervals' = DropNamed
    /\ IF isRecording
       THEN /\ stopPc' = IF stopPc = "idle" THEN by ELSE stopPc
            /\ recorder' = IF recorder = "on" THEN "stopping" ELSE recorder
            /\ UNCHANGED running
       ELSE /\ running' = FALSE
            /\ recorder' = IF running THEN "off" ELSE recorder
            /\ UNCHANGED stopPc

\* The rest of stopRecording once stopRecorder() resolved, and the effect
\* cleanup if isRecording was true.
Part002StopDone ==
    /\ variant = "Part002"
    /\ stopPc # "idle"
    /\ stopPc' = "idle"
    /\ recorder' = IF running \/ recorder = "stopping" THEN "off" ELSE recorder
    /\ running' = FALSE
    /\ intervalRef' = IF running THEN FALSE ELSE intervalRef
    /\ intervals' = IF running THEN DropNamed ELSE intervals
    /\ lastOp' = [Op("stop") EXCEPT !.by = stopPc]
    /\ UNCHANGED <<part002, micPermission, now, waveformData, time, currentDB,
                   startTimeRef, session, steps, backs, mounted>>

\* stopRecorder() rejected: the catch block only logs.
Part002StopFailed ==
    /\ variant = "Part002"
    /\ stopPc # "idle"
    /\ stopPc' = "idle"
    /\ \E r \in {"off", "on"} :
           recorder' = IF recorder = "stopping" THEN r ELSE recorder
    /\ lastOp' = [Op("stopFailed") EXCEPT !.by = stopPc]
    /\ UNCHANGED <<part002, micPermission, ivals, now, waveformData, running, time,
                   currentDB, startTimeRef, session, steps, backs, mounted>>

\* The callback of a live interval: it samples, then stops the recording
\* once the elapsed time has reached the duration.
Part002Interval(dbValue) ==
    /\ variant = "Part002"
    /\ Event
    /\ \E i \in 1..Len(intervals) :
         LET isRecording == intervals[i]
             currentTime == now - startTimeRef
             newPoint == [x |-> currentTime, y |-> dbValue]
         IN  /\ time' = currentTime
             /\ currentDB' = dbValue
             /\ waveformData' =
                    SlidingWindow2(Append(waveformData, newPoint), currentTime)
             /\ IF currentTime >= duration
                THEN /\ Part002Stop(isRecording, "interval")
                     /\ SessionPushBy(newPoint, "interval")
                ELSE /\ SessionPushBy(newPoint, "")
                     /\ UNCHANGED <<ivals, stopPc, recorder, running>>
    /\ UNCHANGED <<part002, micPermission, now, startTimeRef, backs, mounted>>

\* ------------------------------------------------------------------ timers
\* The timeout armed by startAudio fires: () => stopAudio()
TimeoutFires ==
    /\ timeoutRef # <<>>
    /\ now >= timeoutRef[1]
    /\ IF variant = "DbGraph"
       THEN DbGraphStopCall(timerAvg, "timeout")
       ELSE Part001Stop(timerAvg, "timeout")
    /\ UNCHANGED steps

\* The user (or the parent, through the ref) calls stopRecording: the
\* handler of the current render.
StopCall ==
    /\ Event
    /\ CASE variant = "DbGraph" -> DbGraphStopCall(averageDB, "user")
         [] variant = "Part001" -> Part001Stop(averageDB, "user")
         [] variant = "Part002" ->
                /\ Part002Stop(running, "user")
                /\ lastOp' = [Op("stopCall") EXCEPT !.by = "user"]
                /\ UNCHANGED <<part002, micPermission, now, waveformData, time, currentDB,
                               startTimeRef, session, backs, mounted>>

Next ==
    \/ Tick
    \/ ClockBack
    \/ StartDenied
    \/ ClearData
    \/ StopCall
    \/ TimeoutFires
    \/ \E db \in FrameDbs : OnData(db)
    \/ DbGraphStart(TRUE)
    \/ DbGraphStart(FALSE)
    \/ DbGraphStopDone
    \/ DbGraphStopFailed
    \/ \E dB \in SimulatedDbs : IntervalCallback(dB)
    \/ Part001Start(TRUE)
    \/ Part001Start(FALSE)
    \/ Part002Start(TRUE)
    \/ Part002Start(FALSE)
    \/ \E dbValue \in GeneratedDbs : Part002Interval(dbValue)
    \/ Part002StopDone
    \/ Part002StopFailed

Spec == Init /\ [][Next]_vars

\* ------------------------------------------- mounted with a bad duration
\* The duration prop is whatever the parent passes: nothing in the
\* components checks it. These are the runs of a component mounted with a
\* duration of 0 or less; no timeout is ever armed in them.
InvalidDurations == {0, -1}

InitInvalid ==
    /\ variant \in Variants
    /\ duration \in InvalidDurations
    /\ Mounted

NextInvalid ==
    \/ Tick
    \/ ClockBack
    \/ StartDenied
    \/ ClearData
    \/ StopCall
    \/ \E db \in FrameDbs : OnData(db)
    \/ DbGraphStart(TRUE)
    \/ DbGraphStart(FALSE)
    \/ DbGraphStopDone
    \/ DbGraphStopFailed
    \/ \E dB \in SimulatedDbs : IntervalCallback(dB)
    \/ Part001Start(TRUE)
    \/ Part001Start(FALSE)
    \/ Part002Start(TRUE)
    \/ Part002Start(FALSE)
    \/ \E dbValue \in GeneratedDbs : Part002Interval(dbValue)
    \/ Part002StopDone
    \/ Part002StopFailed

SpecInvalid == InitInvalid /\ [][NextInvalid]_vars

\* ------------------------------------------------- a session left alone
\* The runs in which the user starts one session from Idle and then calls
\* nothing: only the clock, the recorder's frames, the intervals and the
\* timeout act, and the recorder's stop succeeds.
FirstStart ==
    /\ lastOp.op = "mount"
    /\ \/ DbGraphStart(TRUE)
       \/ Part001Start(TRUE)
       \/ Part002Start(TRUE)

NextAuto ==
    \/ Tick
    \/ FirstStart
    \/ TimeoutFires
    \/ \E db \in FrameDbs : OnData(db)
    \/ DbGraphStopDone
    \/ \E dB \in SimulatedDbs : IntervalCallback(dB)
    \/ \E dbValue \in GeneratedDbs : Part002Interval(dbValue)

SpecAuto == Init /\ [][NextAuto]_vars

\* ------------------------------------------------- the four-sample scenario
\* DbGraph.jsx with duration = 5, fed frames of 50, 60, 5 and 70 dB at 0.0,
\* 0.5, 1.0 and 6.0 seconds after the start. Here the clock counts half
\* seconds, so that the window of 5 s is a duration of 10 and the frames come
\* at 0, 1, 2 and 12; the handler only compares and subtracts times, which a
\* change of unit leaves as it is.
ScenarioTicksPerSecond == 2
ScenarioWindow == 5 * ScenarioTicksPerSecond
ScenarioTimes == <<0, 1, 2, 12>>
ScenarioLevels == <<50, 60, 5, 70>>
ScenarioEnd == Epoch0 + MaxScenarioStart + ScenarioTimes[4] + 1

InitScenario ==
    /\ variant = "DbGraph"
    /\ duration = ScenarioWindow
    /\ Mounted

\* The clock of the scenario.
ScenarioTick ==
    /\ now < ScenarioEnd
    /\ lastOp.op = "mount" => now < Epoch0 + MaxScenarioStart
    /\ now' = now + 1
    /\ UNCHANGED <<props, micPermission, ivals, recorder, waveformData,
                   running, time, averageDB, currentDB, recordingDuration,
                   startTimeRef, timeoutRef, activeSpeechTimeRef,
                   lastCurrentUpdateRef, stopPc, closures, lastOp, session,
                   steps, backs, mounted>>

ScenarioStart == lastOp.op = "mount" /\ DbGraphStart(TRUE)

\* The next frame of the scenario, at its time.
ScenarioPush ==
    /\ steps \in 1..Len(ScenarioTimes)
    /\ now - startTimeRef = ScenarioTimes[steps]
    /\ OnData(ScenarioLevels[steps])

\* The timeout of the session is due at 5 s: the frame of 6.0 s is one that
\* the handler gets before the timeout callback has run, or while
\* AudioRecord.stop() is awaited.
NextScenario ==
    \/ ScenarioTick
    \/ ScenarioStart
    \/ ScenarioPush
    \/ TimeoutFires
    \/ DbGraphStopDone

SpecScenario == InitScenario /\ [][NextScenario]_vars

\* ---------------------------------------------------------- paced sampling
\* Samples come one sampling tick apart (the frame period of the recorder,
\* the period of setInterval): the clock moves by one tick after each sample
\* before anything else happens. The clock is not set back here.
PacedTick ==
    /\ now < Epoch0 + MaxPacedTicks
    /\ now' = now + 1
    /\ lastOp' = Op("tick")
    /\ UNCHANGED <<props, micPermission, ivals, recorder, waveformData,
                   running, time, averageDB, currentDB, recordingDuration,
                   startTimeRef, timeoutRef, activeSpeechTimeRef,
                   lastCurrentUpdateRef, stopPc, closures, session, steps,
                   backs, mounted>>

PacedStep ==
    /\ lastOp.op # "sample"
    /\ \/ ClearData
       \/ StopCall
       \/ TimeoutFires
       \/ \E db \in FrameDbs : OnData(db)
       \/ DbGraphStart(TRUE)
       \/ DbGraphStopDone
       \/ \E dB \in SimulatedDbs : IntervalCallback(dB)
       \/ Part001Start(TRUE)
       \/ Part002Start(TRUE)
       \/ \E dbValue \in GeneratedDbs : Part002Interval(dbValue)
       \/ Part002StopDone

NextPaced == PacedTick \/ PacedStep

SpecPaced == Init /\ [][NextPaced]_vars

\* ---------------------------------------------------- level normalisation
\* The numbers of JavaScript the level computation can produce: a finite
\* number, NaN or -Infinity.
JsNum(n) == [k |-> "num", v |-> n]
JsNaN == [k |-> "NaN", v |-> 0]
JsNegInf == [k |-> "-Infinity", v |-> 0]

RECURSIVE SumSquares(_)
SumSquares(buffer) ==
    IF buffer = <<>> THEN 0
    ELSE Head(buffer) * Head(buffer) + SumSquares(Tail(buffer))

RECURSIVE SqrtBetween(_, _, _)
SqrtBetween(n, lo, hi) ==
    IF lo >= hi THEN lo
    ELSE LET mid == (lo + hi + 1) \div 2
         IN  IF mid * mid <= n THEN SqrtBetween(n, mid, hi)
             ELSE SqrtBetween(n, lo, mid - 1)

\* calculateRMS: Math.sqrt(sum / buffer.length), to the whole number below;
\* 0 / 0 is NaN for a buffer of length 0.
CalculateRMS(buffer) ==
    IF Len(buffer) = 0 THEN JsNaN
    ELSE JsNum(SqrtBetween(SumSquares(buffer) \div Len(buffer), 0, Int16Max + 1))

RECURSIVE Log10Floor(_)
Log10Floor(r) == IF r < 10 THEN 0 ELSE 1 + Log10Floor(r \div 10)

\* 20 * Math.log10(rms / 32767) + 90, to the decade of rms below:
\* 20 * log10(32767) is 90.3, so a rms of 10^k gives 20k - 0.3.
FrameDb(rms) ==
    IF rms.k = "NaN" THEN JsNaN
    ELSE IF rms.v = 0 THEN JsNegInf
    ELSE JsNum(20 * Log10Floor(rms.v) + DbShift - DbInt16Max)

\* Math.max(0, Math.min(100, db)): NaN stays NaN, -Infinity gives 0
NormalizeJs(db) ==
    IF db.k = "NaN" THEN JsNaN
    ELSE IF db.k = "-Infinity" THEN JsNum(0)
    ELSE JsNum(NormalizeDb(db.v))

NormalizeFrame(buffer) == NormalizeJs(FrameDb(CalculateRMS(buffer)))

\* App.js soundLevelToPercentage:
\* Math.round(Math.min(100, Math.max(0, (soundLevel / 80) * 100)))
SoundLevelToPercentage(soundLevel) ==
    IF soundLevel <= 0 THEN 0
    ELSE Min(100, (2 * soundLevel * 100 + SoundLevelFull) \div (2 * SoundLevelFull))

RECURSIVE SeqsUpTo(_, _)
SeqsUpTo(S, n) ==
    IF n = 0 THEN {<<>>}
    ELSE LET shorter == SeqsUpTo(S, n - 1)
         IN  shorter \cup {Append(q, e) : q \in shorter, e \in S}

FrameSamples == {-20000, -3, 0, 3, 100, 20000}
Frames == SeqsUpTo(FrameSamples, MaxFrameLen)
SoundLevels == (0 - 2)..MaxSoundLevel
\* 20 * Math.log10(rms || 0.0001) for the simulated amplitudes
AmplitudeDbs == (0 - 80)..0

\* One level computed from one input.
Normalized(kind, input, result) ==
    /\ lastOp' = [Op("normalize") EXCEPT
                     !.by = kind, !.sample = <<input>>, !.ret = <<result>>]
    /\ UNCHANGED <<props, micPermission, ivals, now, recorder, waveformData,
                   running, time, averageDB, currentDB, recordingDuration,
                   startTimeRef, timeoutRef, activeSpeechTimeRef,
                   lastCurrentUpdateRef, stopPc, closures, session, steps,
                   backs, mounted>>

NormalizeAFrame ==
    \E buffer \in Frames : Normalized("frame", buffer, NormalizeFrame(buffer))

NormalizeASoundLevel ==
    \E soundLevel \in SoundLevels :
        Normalized("soundLevel", soundLevel,
                   JsNum(SoundLevelToPercentage(soundLevel)))

NormalizeAnAmplitude ==
    \E dB \in AmplitudeDbs :
        Normalized("amplitude", dB, JsNum(ProcessAudioData(dB)))

NextNormalize == NormalizeAFrame \/ NormalizeASoundLevel \/ NormalizeAnAmplitude

SpecNormalize == Init /\ [][NextNormalize]_vars

\* The variant keeps an average and a speech time (part_002 has neither).
HasAverage == variant \in {"DbGraph", "Part001"}

\* --------------------------------------------------- sessions with speech
\* One session from the mount to its stop, long enough for a second of
\* speech: ten frames above the threshold in DbGraph.jsx, twenty samples in
\* part_001. The frames are all of one level, and the clock stops at the
\* duration, where the timeout and the interval end the session.
SpeechFrameDbs == {60}
SpeechSimulatedDbs == {0 - 2}

InitSpeech ==
    /\ HasAverage
    /\ variant \in Variants
    /\ duration \in Durations \cup
           (IF variant = "Part001" THEN {TimeoutDuration} ELSE {})
    /\ MountedAt(MaxSteps - MaxSpeechSteps)

SpeechTick == now < Epoch0 + duration /\ Tick

SpeechStart == lastOp.op = "mount" /\ (DbGraphStart(TRUE) \/ Part001Start(TRUE))

NextSpeech ==
    \/ SpeechTick
    \/ SpeechStart
    \/ StopCall
    \/ TimeoutFires
    \/ \E db \in SpeechFrameDbs : OnData(db)
    \/ DbGraphStopDone
    \/ \E dB \in SpeechSimulatedDbs : IntervalCallback(dB)

SpecSpeech == InitSpeech /\ [][NextSpeech]_vars

\* ------------------------------------------------ App.js: sound-level meter
\* Math.round(sum / length) of a list of readings (none is negative)
RECURSIVE SumOf(_)
SumOf(readings) ==
    IF readings = <<>> THEN 0 ELSE Head(readings) + SumOf(Tail(readings))

RoundedMean(readings) ==
    (2 * SumOf(readings) + Len(readings)) \div (2 * Len(readings))

\* A variant that lets the history grow by one more reading.
KeepLastLate(newHistory) ==
    IF Len(newHistory) > HistoryCap + 1 THEN Tail(newHistory) ELSE newHistory

\* if (newHistory.length > 50) newHistory.shift()
KeepLast(newHistory) ==
    IF Len(newHistory) > HistoryCap THEN Tail(newHistory) ELSE newHistory

\* Nothing of the graph components moves in a step of App.js.
AppAlone ==
    UNCHANGED <<variant, duration, handle, micPermission, ivals, now,
                recorder, waveformData, running, time, averageDB, currentDB,
                recordingDuration, startTimeRef, timeoutRef,
                activeSpeechTimeRef, lastCurrentUpdateRef, stopPc, closures,
                lastOp, session, steps, backs, mounted>>

\* checkMicrophonePermission / requestMicrophonePermission: granted
AppPermissionGranted ==
    /\ variant = "App"
    /\ ~app.hasPermission
    /\ app' = [app EXCEPT !.hasPermission = TRUE]
    /\ AppAlone

\* handleStartStop with isRecording false: startRecording. Without the
\* permission it shows an Alert and returns.
AppStart ==
    /\ variant = "App"
    /\ ~app.isRecording
    /\ app.hasPermission
    /\ app' = [app EXCEPT !.soundLevel = "on",
                          !.isRecording = TRUE,
                          !.decibelHistory = <<>>,
                          !.arrived = <<>>,
                          !.listeners = @ + 1,
                          !.soundLevelListener = TRUE]
    /\ AppAlone

\* The listener given to SoundLevel.onNewFrame, for one frame.
OnNewFrame(state, soundLevel) ==
    LET percentage == SoundLevelToPercentage(soundLevel)
        newHistory == KeepLast(Append(state.decibelHistory, percentage))
    IN  [state EXCEPT !.currentDecibels = percentage,
                      !.decibelHistory = newHistory,
                      !.averageDecibels = RoundedMean(newHistory)]

RECURSIVE OnNewFrames(_, _, _)
OnNewFrames(state, soundLevel, n) ==
    IF n = 0 THEN state
    ELSE OnNewFrames(OnNewFrame(state, soundLevel), soundLevel, n - 1)

\* SoundLevel delivers a frame: every listener registered runs. The levels
\* of one session do not fall, which keeps the histories few.
AppFrame(soundLevel) ==
    /\ variant = "App"
    /\ app.soundLevel = "on"
    /\ app.listeners > 0
    /\ app.frames < MaxAppFrames
    /\ app.arrived # <<>> =>
           SoundLevelToPercentage(soundLevel) >= app.arrived[Len(app.arrived)]
    /\ app' = [OnNewFrames(app, soundLevel, app.listeners) EXCEPT
                   !.arrived = Append(@, SoundLevelToPercentage(soundLevel)),
                   !.frames = @ + 1]
    /\ AppAlone

\* handleStartStop with isRecording true: stopRecording
AppStop ==
    /\ variant = "App"
    /\ app.isRecording
    /\ app' = [app EXCEPT
                   !.soundLevel = "off",
                   !.listeners = IF app.soundLevelListener THEN @ - 1 ELSE @,
                   !.soundLevelListener = FALSE,
                   !.isRecording = FALSE,
                   !.currentDecibels = 0]
    /\ AppAlone

AppSoundLevels == {30, 90}

InitApp ==
    /\ variant = "App"
    /\ duration = 0
    /\ Mounted

NextApp ==
    \/ AppPermissionGranted
    \/ AppStart
    \/ \E soundLevel \in AppSoundLevels : AppFrame(soundLevel)
    \/ AppStop

SpecApp == InitApp /\ [][NextApp]_vars

\* ------------------------------------------------------- the ref's getters
\* What the parent gets from getAverageDB(), isRecording() and
\* getSpeechTime(). The handle is made anew by every render, and the state
\* set by a handler is taken as rendered before the parent reads.
Rendered == [averageDB |-> averageDB, running |-> running]

\* React renders the state the handlers have set; useImperativeHandle makes
\* the handle anew with the averageDB and the running of that render.
Render ==
    /\ HasAverage
    /\ handle # Rendered
    /\ handle' = Rendered
    /\ UNCHANGED <<variant, duration, app, micPermission, ivals, now,
                   recorder, waveformData, running, time, averageDB,
                   currentDB, recordingDuration, startTimeRef, timeoutRef,
                   activeSpeechTimeRef, lastCurrentUpdateRef, stopPc,
                   closures, lastOp, session, steps, backs, mounted>>

\* What the parent gets from getAverageDB(), isRecording() and
\* getSpeechTime(): the state the handle captured, and the ref as it is now.
Getters ==
    [getAverageDB |-> handle.averageDB,
     isRecording |-> handle.running,
     getSpeechTime |-> activeSpeechTimeRef]

\* The parent calls the three getters.
Read ==
    /\ HasAverage
    /\ lastOp' = [Op("read") EXCEPT !.ret = <<Getters>>]
    /\ UNCHANGED <<props, micPermission, ivals, now, recorder, waveformData,
                   running, time, averageDB, currentDB, recordingDuration,
                   startTimeRef, timeoutRef, activeSpeechTimeRef,
                   lastCurrentUpdateRef, stopPc, closures, session, steps,
                   backs, mounted>>

InitRead == HasAverage /\ Init

NextRead ==
    \/ Read
    \/ Render
    \/ Tick
    \/ ClearData
    \/ StopCall
    \/ TimeoutFires
    \/ \E db \in FrameDbs : OnData(db)
    \/ DbGraphStart(TRUE)
    \/ DbGraphStopDone
    \/ \E dB \in SimulatedDbs : IntervalCallback(dB)
    \/ Part001Start(TRUE)

SpecRead == InitRead /\ [][NextRead]_vars

\* ------------------------------------------------------------------ reads
\* What the ref's getters and the readouts show: getAverageDB, getSpeechTime,
\* the current level, the elapsed time and the number of points held.
Snapshot ==
    [currentLevel |-> currentDB,
     runningAverage |-> averageDB,
     activeDurationSeconds |-> activeSpeechTimeRef,
     elapsedSeconds |-> time,
     sampleCount |-> Len(waveformData)]

\* The last handler pushed a sample.
Sampled == lastOp.op = "sample"
\* Its level is above the speech threshold of the variant.
IsSpeech(y) == CASE variant = "DbGraph" -> y > SpeechThreshold
                 [] variant = "Part001" -> y > SpeechThreshold1
                 [] OTHER -> FALSE
\* The nominal tick of the variant, hundredths of a second.
NominalStep == IF variant = "DbGraph" THEN SpeechStep ELSE SpeechStep1
\* The points of a list that count in the average of the variant.
Qualifying(points) == CASE variant = "DbGraph" -> ActivePoints(points)
                        [] variant = "Part001" -> ValidPoints(points)
                        [] OTHER -> points

\* ----------------------------------------------------------------- claims
\* C1: after every pushed sample of a session (begun by a successful start
\* from Idle or Stopped) whose sample times never decrease, the Window is
\* exactly the samples pushed in that session (since the last clear, if any)
\* whose time is at least (time of the newest) - duration.
C1_WindowIsSessionWindow ==
    (Sampled /\ sessionRegular) => waveformData = sessionWindow

\* C2: when a stop finishes with less than one second of speech time, the
\* value it returns, the value it passes to onAverageUpdate (when it calls
\* it) and the stored averageDB are all 0, on every path through stop.
C2_ShortSpeechReportsZero ==
    (HasAverage /\ lastOp.op \in {"stop", "stopFailed"}
     /\ activeSpeechTimeRef < MinSpeech)
        => /\ lastOp.ret = <<Zero>>
           /\ lastOp.cb \in {<<>>, <<Zero>>}
           /\ averageDB = Zero

\* C3: a successful start from Idle or Stopped leaves the Window empty,
\* running true, the elapsed time 0, the speech time 0 and the average 0.
C3_StartResets ==
    [][(~running /\ stopPc = "idle" /\ lastOp'.op = "start")
          => /\ waveformData' = <<>>
             /\ running'
             /\ time' = 0
             /\ activeSpeechTimeRef' = 0
             /\ averageDB' = Zero]_vars

\* C4: a sample delivered while the session is not active is dropped: the
\* Window, the current level, the average, the speech time and the elapsed
\* time stay as they were.
C4_InactiveSampleDropped ==
    [][(~running /\ lastOp'.op = "sample")
          => UNCHANGED <<waveformData, currentDB, averageDB,
                         activeSpeechTimeRef, time>>]_vars

\* C5: when a pushed sample leaves the Window with no point that counts in
\* the average, averageDB keeps the value it had before the push.
C5_AverageHeld ==
    [][(lastOp'.op = "sample" /\ Qualifying(waveformData') = <<>>)
          => averageDB' = averageDB]_vars

\* C5 witness: a frame was pushed, no point of the Window reaches the floor,
\* and the average still shows the value of an earlier frame.
C5_Witness ==
    /\ Sampled
    /\ waveformData # <<>>
    /\ Qualifying(waveformData) = <<>>
    /\ averageDB # Zero

C7_ClearKeepsSession ==
    [][(running /\ startTimeRef = 0 /\ stopPc = "idle"
        /\ ~running' /\ lastOp'.op # "startFailed")
          => \/ lastOp'.by = "user"
             \/ (lastOp'.by \in {"timeout", "interval"}
                 /\ now - sessionStart >= duration)]_vars

\* C8: a sample whose time is less than the time of the sample before it is
\* rejected: Window, average, speech time, elapsed time and running stay as
\* they were.
C8_OutOfOrderRejected ==
    [][(lastOp'.op = "sample"
        /\ sessionPrev # <<>>
        /\ lastOp'.sample[1].x < sessionPrev[1])
          => UNCHANGED <<waveformData, averageDB, activeSpeechTimeRef, time,
                         running>>]_vars

\* C9 as claimed: while the session stays active the speech time never
\* decreases, and it changes only on a sample above the speech threshold.
C9_SpeechTimeMonotone ==
    [][(running /\ running')
          => /\ activeSpeechTimeRef' >= activeSpeechTimeRef
             /\ (activeSpeechTimeRef' # activeSpeechTimeRef
                   => lastOp'.op = "sample"
                      /\ IsSpeech(lastOp'.sample[1].y))]_vars

\* C9 as amended: the speech time changes only in two ways: a sample above
\* the speech threshold increases it, and clear() or start() reset it to 0.
C9_SpeechTimeChanges ==
    [][activeSpeechTimeRef' # activeSpeechTimeRef
          => \/ /\ lastOp'.op = "sample"
                /\ IsSpeech(lastOp'.sample[1].y)
                /\ activeSpeechTimeRef' > activeSpeechTimeRef
             \/ /\ lastOp'.op \in {"clear", "start", "startFailed"}
                /\ activeSpeechTimeRef' = 0]_vars

\* C9 witness: an active session whose speech time has grown twice.
C9_Witness ==
    /\ running
    /\ Sampled
    /\ IsSpeech(lastOp.sample[1].y)
    /\ activeSpeechTimeRef >= 2 * NominalStep

\* C10: a sample above the speech threshold adds exactly the time since the
\* sample before it (the nominal tick for the first sample of the session).
C10_SpeechTimeAddsDelta ==
    [][(lastOp'.op = "sample" /\ IsSpeech(lastOp'.sample[1].y))
          => activeSpeechTimeRef' = activeSpeechTimeRef +
                (IF sessionPrev = <<>>
                 THEN NominalStep
                 ELSE (lastOp'.sample[1].x - sessionPrev[1]) * 100)]_vars

\* C11: the lifecycle. running turns true only through a successful start;
\* it turns false only through a stop (called by the user, the timeout or the
\* interval); a successful start always leaves running true; clear() leaves
\* running as it was.
C11_Lifecycle ==
    [][/\ (~running /\ running') => lastOp'.op = "start"
       /\ (running /\ ~running')
            => \/ lastOp'.op \in {"stopCall", "stop", "stopFailed"}
               \/ lastOp'.by \in {"user", "timeout", "interval"}
       /\ lastOp'.op = "start" => running'
       /\ lastOp'.op = "clear" => running' = running]_vars

\* C12: with a duration of 0 or less, a call of start changes nothing: running,
\* the Window, the average, the speech time, the elapsed time, the pending
\* timeout and the recorder are as they were before the call.
C12_InvalidDurationRejected ==
    [][(duration <= 0 /\ lastOp'.op \in {"start", "startFailed"})
          => UNCHANGED <<running, waveformData, averageDB, activeSpeechTimeRef,
                         time, timeoutRef, recorder>>]_vars

\* C13: in a session left alone, the auto-stop ends it: running turns false
\* only once the time since the start has reached the duration, the stop
\* leaves the recorder off, and no sample is folded in once running is false.
C13_AutoStop ==
    [][/\ (running /\ ~running') => now - sessionStart >= duration
       /\ (~running' /\ stopPc' = "idle" /\ lastOp'.op # "mount")
            => recorder' = "off"
       /\ ~running => lastOp'.op # "sample"]_vars

StoppedUnsampled ==
    /\ HasAverage
    /\ lastOp.op = "stop"
    /\ lastOp.by = "user"
    /\ sessionStart # 0
    /\ sessionPrev = <<>>
    /\ startTimeRef = sessionStart

C15_StartThenStop ==
    StoppedUnsampled => /\ lastOp.ret = <<Zero>>
                        /\ activeSpeechTimeRef = 0
                        /\ time = 0
                        /\ now = sessionStart => recordingDuration = 0

C15_Witness ==
    StoppedUnsampled /\ now = sessionStart /\ variant = "DbGraph" /\ steps >= 4

\* C16: once the four frames of the scenario are in, the window holds only
\* the frame of second 6.0, and the speech time is the time between each
\* frame above the threshold and the frame before it: 0.5 s for the second
\* frame and 5.0 s for the fourth.
ScenarioDone == steps = Len(ScenarioTimes) + 1

C16_Scenario ==
    ScenarioDone =>
        /\ waveformData = <<[x |-> ScenarioTimes[4], y |-> ScenarioLevels[4]]>>
        /\ activeSpeechTimeRef * ScenarioTicksPerSecond =
               100 * ((ScenarioTimes[2] - ScenarioTimes[1])
                      + (ScenarioTimes[4] - ScenarioTimes[3]))

\* C17: the time of every sample pushed in a running session is the time
\* since the start of that session, it is not below the time of the sample
\* before it, and the elapsed time shown after the push is the time of the
\* sample; clear() in between changes none of this.
C17_SampleTime ==
    (Sampled /\ running) =>
        LET p == lastOp.sample[1]
        IN  /\ p.x = now - sessionStart
            /\ p.prev = <<>> \/ p.x >= p.prev[1]
            /\ time = p.x

\* C18: with samples one sampling tick apart, the Window never holds more
\* samples than fit in one window: the duration in ticks, plus one.
C18_WindowBounded ==
    Len(waveformData) <= duration + 1

\* C19: the level computed from any input is a number between 0 and
\* maxDisplay, also for a frame of zeros and a frame without samples, and a
\* higher raw level never gives a lower result.
NormalizeMonotone ==
    /\ \A f, g \in Frames \ {<<>>} :
          CalculateRMS(f).v <= CalculateRMS(g).v
              => NormalizeFrame(f).v <= NormalizeFrame(g).v
    /\ \A a, b \in SoundLevels :
          a <= b => SoundLevelToPercentage(a) <= SoundLevelToPercentage(b)
    /\ \A a, b \in AmplitudeDbs :
          a <= b => ProcessAudioData(a) <= ProcessAudioData(b)

C19_NormalizeInRange ==
    /\ lastOp.op = "normalize"
          => /\ lastOp.ret[1].k = "num"
             /\ lastOp.ret[1].v \in 0..MaxDisplay
    /\ NormalizeMonotone

\* C20: a read through the getters changes nothing of the component, and a
\* read returns what the read before it returned when no handler ran in
\* between.
C20_ReadsArePure ==
    [][lastOp'.op = "read"
          => /\ UNCHANGED <<recorder, waveformData, running, time, averageDB,
                            currentDB, recordingDuration, startTimeRef,
                            timeoutRef, activeSpeechTimeRef,
                            lastCurrentUpdateRef, stopPc, intervalRef,
                            intervals>>
             /\ lastOp.op = "read" => lastOp'.ret = lastOp.ret]_vars

\* C21: after the recorder failed in a start or in a stop, the component is
\* not running, no timeout is pending and no sampling interval is alive.
C21_FailureRecoverable ==
    lastOp.op \in {"startFailed", "stopFailed"}
        => /\ ~running
           /\ timeoutRef = <<>>
           /\ intervals = <<>>

\* C22: a stop that finds a speech time of one second or more returns, and
\* hands to onAverageUpdate, the average the last sample before it left,
\* whoever called it: the user, the timeout or the interval.
C22_StopReportsRunningAverage ==
    [][(/\ HasAverage
        /\ lastOp'.op = "stop"
        /\ lastOp' # lastOp
        /\ variant = "DbGraph" => lastOp.op = "stopCall"
        /\ activeSpeechTimeRef >= MinSpeech)
          => /\ lastOp'.ret = <<averageDB>>
             /\ lastOp'.cb = <<averageDB>>]_vars

\* C23: after a push that leaves a point at or above the silence floor in
\* the Window, the average is the mean of exactly the points of the Window
\* at or above the floor.
C23_AverageOfActivePoints ==
    (HasAverage /\ Sampled /\ ActivePoints(waveformData) # <<>>)
        => averageDB = Mean(ActivePoints(waveformData))

C23_Witness ==
    /\ variant = "DbGraph"
    /\ Sampled
    /\ Len(ActivePoints(waveformData)) >= 2
    /\ Len(ActivePoints(waveformData)) < Len(waveformData)
    /\ averageDB # Mean(waveformData)

\* C24: the history of App.js holds at most 50 readings, the latest ones of
\* the session in the order they came, and the average shown is the rounded
\* mean of the readings in the history.
LastOf(readings, n) ==
    SubSeq(readings, Len(readings) - Min(n, Len(readings)) + 1, Len(readings))

C24_HistoryOfLastFifty ==
    /\ Len(app.decibelHistory) <= HistoryCap
    /\ app.decibelHistory = LastOf(app.arrived, HistoryCap)
    /\ app.decibelHistory # <<>>
          => app.averageDecibels = RoundedMean(app.decibelHistory)

C24_Witness ==
    /\ Len(app.arrived) > HistoryCap
    /\ Len(app.decibelHistory) = HistoryCap
    /\ app.decibelHistory[1] # app.decibelHistory[HistoryCap]
    /\ app.averageDecibels * Len(app.decibelHistory) # SumOf(app.decibelHistory)

\* C25: a call of stop or of clear leaves no timeout pending, a timeout is
\* armed only by a start, and a stop comes from the timeout only while the
\* timeout armed since then is pending and due.
StopOrClearCalled ==
    /\ HasAverage
    /\ lastOp' # lastOp
    /\ lastOp'.op \in {IF variant = "DbGraph" THEN "stopCall" ELSE "stop", "clear"}

C25_StaleTimerNeverFires ==
    [][/\ StopOrClearCalled => timeoutRef' = <<>>
       /\ (timeoutRef' # timeoutRef /\ timeoutRef' # <<>>) => lastOp'.op = "start"
       /\ (StopOrClearCalled /\ lastOp'.by = "timeout")
             => (timeoutRef # <<>> /\ now >= timeoutRef[1])]_vars

C25_Witness ==
    /\ HasAverage
    /\ running
    /\ lastOp.op = "tick"
    /\ timeoutRef = <<>>
    /\ startTimeRef = 0
    /\ now >= sessionStart + duration

\* C26: at most one sampling interval is alive at any time, and once a stop
\* has left the component not running no interval is alive and no timeout is
\* pending.
C26_SingleSource ==
    /\ Len(intervals) <= 1
    /\ (lastOp.op = "stop" /\ ~running)
          => (intervals = <<>> /\ timeoutRef = <<>>)

\* C27: in part_002, right after a successful startRecording has made
\* isRecording true, the sampling interval of that session is alive: the
\* cleanup of the [isRecording] effect has not cancelled it.
C27_IntervalAliveWhileRecording ==
    (variant = "Part002" /\ lastOp.op = "start" /\ running)
        => (intervalRef /\ intervals # <<>>)

Unmount ==
    /\ mounted
    /\ mounted' = FALSE
    /\ lastOp' = Op("unmount")
    /\ CASE variant \in {"DbGraph", "Part001"} ->
               /\ timeoutRef' = <<>>
               /\ recorder' = IF recorder = "on" THEN "stopping" ELSE recorder
               /\ UNCHANGED <<ivals, app>>
         [] variant = "Part002" ->
               /\ intervalRef' = FALSE
               /\ intervals' = DropNamed
               /\ recorder' = IF running /\ recorder = "on"
                               THEN "stopping" ELSE recorder
               /\ UNCHANGED <<timeoutRef, app>>
         [] variant = "App" ->
               /\ app' = [app EXCEPT
                              !.soundLevel = "off",
                              !.listeners = IF app.soundLevelListener
                                            THEN @ - 1 ELSE @,
                              !.soundLevelListener = FALSE,
                              !.isRecording = FALSE,
                              !.currentDecibels = 0]
               /\ UNCHANGED <<ivals, timeoutRef, recorder>>
    /\ UNCHANGED <<variant, duration, handle, now, micPermission, waveformData,
                   running, time, averageDB, currentDB, recordingDuration,
                   startTimeRef, activeSpeechTimeRef, lastCurrentUpdateRef,
                   stopPc, closures, session, steps, backs>>

\* The native recorder has stopped, after a stop nothing awaited.
RecorderStops ==
    /\ ~mounted
    /\ stopPc = "idle"
    /\ recorder = "stopping"
    /\ recorder' = "off"
    /\ UNCHANGED <<props, micPermission, ivals, now, waveformData, running,
                   time, averageDB, currentDB, recordingDuration, startTimeRef,
                   timeoutRef, activeSpeechTimeRef, lastCurrentUpdateRef,
                   stopPc, closures, lastOp, session, steps, backs, mounted>>

\* What the user, the parent and the [running] interval of part_001 do,
\* which needs the component mounted.
WhileMounted ==
    /\ mounted
    /\ \/ variant \in Variants /\ StopCall
       \/ AppStop
       \/ DbGraphStart(TRUE)
       \/ Part001Start(TRUE)
       \/ Part002Start(TRUE)
       \/ \E dB \in SimulatedDbs : IntervalCallback(dB)
       \/ AppPermissionGranted
       \/ AppStart

InitUnmount == Init \/ InitApp

\* The timers, the intervals, the listeners and the continuations run
\* whenever they are alive, mounted or not.
NextUnmount ==
    \/ WhileMounted
    \/ Unmount
    \/ RecorderStops
    \/ Tick
    \/ TimeoutFires
    \/ \E db \in FrameDbs : OnData(db)
    \/ \E dbValue \in GeneratedDbs : Part002Interval(dbValue)
    \/ DbGraphStopDone
    \/ Part002StopDone
    \/ \E soundLevel \in AppSoundLevels : AppFrame(soundLevel)

SpecUnmount == InitUnmount /\ [][NextUnmount]_vars

\* C29: once the component has unmounted no timeout is pending, no interval
\* is alive, no listener is registered, the recorder has been told to stop,
\* and no sample is pushed into its state.
C29_NothingLeftAfterUnmount ==
    ~mounted =>
        /\ timeoutRef = <<>>
        /\ intervals = <<>>
        /\ app.listeners = 0
        /\ recorder # "on"
        /\ lastOp.op # "sample"

\* ------------------------------------------------------ the range indicators
\* averageDB >= k, averageDB <= k and averageDB <= t / 10, for the average
\* kept as the fraction <<sum, count>>.
AtLeast(avg, k) == avg[1] >= k * avg[2]
AtMost(avg, k) == avg[1] <= k * avg[2]
AtMostTenths(avg, t) == 10 * avg[1] <= t * avg[2]

\* The three range indicators, by rangeIndex.
RangeIndexes == 0..2

\* themeColors.cardBg: the background of an indicator that is not highlighted.
CardBg == "cardBg"

\* getColorForRange(rangeIndex): the background of the indicator.
GetColorForRange(rangeIndex, avg) ==
    IF variant = "DbGraph"
    THEN CASE rangeIndex = 0 ->
                  IF AtLeast(avg, 0) /\ AtMost(avg, 25) THEN "warning" ELSE CardBg
           [] rangeIndex = 1 ->
                  IF AtLeast(avg, 26) /\ AtMost(avg, 50) THEN "success" ELSE CardBg
           [] rangeIndex = 2 ->
                  IF AtLeast(avg, 51) THEN "danger" ELSE CardBg
           [] OTHER -> CardBg
    ELSE CASE rangeIndex = 0 ->
                  IF AtLeast(avg, 0) /\ AtMost(avg, 16) THEN "#eab308" ELSE CardBg
           [] rangeIndex = 1 ->
                  IF AtLeast(avg, 17) /\ AtMost(avg, 33) THEN "#22c55e" ELSE CardBg
           [] rangeIndex = 2 ->
                  IF AtLeast(avg, 34) /\ AtMost(avg, 50) THEN "#dc2626" ELSE CardBg
           [] OTHER -> CardBg

\* getAverageDbColor(): the colour of the average readout.
GetAverageDbColor(avg) ==
    IF variant = "DbGraph"
    THEN CASE AtLeast(avg, 0) /\ AtMost(avg, 25) -> "warning"
           [] AtLeast(avg, 26) /\ AtMost(avg, 50) -> "success"
           [] AtLeast(avg, 51) -> "danger"
           [] OTHER -> "accent"
    ELSE CASE AtLeast(avg, 0) /\ AtMostTenths(avg, 156) -> "#eab308"
           [] AtLeast(avg, 16) /\ AtMostTenths(avg, 316) -> "#22c55e"
           [] AtLeast(avg, 32) -> "#dc2626"
           [] OTHER -> "#3b82f6"

\* The colour an indicator takes when it is highlighted.
BandColor(rangeIndex) ==
    IF variant = "DbGraph"
    THEN <<"warning", "success", "danger">>[rangeIndex + 1]
    ELSE <<"#eab308", "#22c55e", "#dc2626">>[rangeIndex + 1]

\* The range written on each indicator: "0-25 dB", "26-50 dB", "51+ dB" in
\* DbGraph.jsx, "0-39 dB", "40-79 dB", "80-120 dB" in part_001.
LabelledRange(rangeIndex) ==
    IF variant = "DbGraph"
    THEN <<<<0, 25>>, <<26, 50>>, <<51, MaxDisplay>>>>[rangeIndex + 1]
    ELSE <<<<0, 39>>, <<40, 79>>, <<80, 120>>>>[rangeIndex + 1]

\* The indicators highlighted for an average.
Highlighted(avg) ==
    {rangeIndex \in RangeIndexes : GetColorForRange(rangeIndex, avg) # CardBg}

====
